---- MODULE Spec2Model ----
(***************************************************************************)
(* Model of the bootstrap core of plugable-express (appInit): the command  *)
(* path registry, the two error middleware stages and the bootstrap        *)
(* sequence.  Each component has its own specification over the shared     *)
(* variables; the variables of the other components stay at their initial  *)
(* values.                                                                 *)
(***************************************************************************)
EXTENDS Integers, Sequences, FiniteSets, TLC

VARIABLES
  nodes,           \* heap of JS objects reachable from app.ext.commandPaths
  calls,           \* history of addCommandPath calls: <<path, parameters, ok>>
  lastCall,        \* outcome of the latest addCommandPath call
  errorsEphemeral, \* app.ext.errorsEphemeral
  ncaptured,       \* number of exceptions the capture stage has handled
  nappended,       \* number of bursts of records pushed by other holders of app.ext
  clock,           \* new Date().getTime()
  lastOp,          \* the latest operation on the error log
  logBefore,       \* app.ext.errorsEphemeral as the latest operation found it
  lastError,       \* the exception as the capture stage passed it to next()
  pending,         \* the exception, request and response reaching the present stage
  presented,       \* what the present stage did with them
  options,         \* the argument of appInit
  pc,              \* where appInit is: idle, the await it is suspended at, or its end
  app,             \* the express application: its router stack and app.ext
  remaining,       \* the entries of pluginPaths not loaded yet
  depRunner,       \* the DependencyRunner of this bootstrap
  files,           \* the files written by the bootstrap
  liqHome,         \* what getLiqHome() returns in this process
  disk,            \* the settings files: path -> content
  fsLog,           \* the file system calls of the bootstrap, in order
  phaseLog,        \* start and end of each phase of the bootstrap, in order
  detached,        \* the appInit of a reload works on a new express(), not on the served app
  served,          \* the served application while detached
  pre,             \* the served application as the latest reload found it
  reloads,         \* number of calls of app.reload
  observed,        \* what the latest request found in the served application
  nreq             \* number of requests dispatched

trieVars == <<nodes, calls, lastCall>>
logVars == <<errorsEphemeral, ncaptured, nappended, clock, lastOp, logBefore, lastError>>

vars == <<nodes, calls, lastCall, errorsEphemeral, ncaptured, nappended, clock,
          lastOp, logBefore, lastError, pending, presented,
          options, pc, app, remaining, depRunner, files, liqHome, disk, fsLog,
          phaseLog, detached, served, pre, reloads, observed, nreq>>
presentVars == <<pending, presented>>
reloadVars == <<detached, served, pre, reloads, observed, nreq>>
bootVars == <<options, pc, app, remaining, depRunner, files, liqHome, disk, fsLog,
             phaseLog, reloadVars>>

Undefined == "undefined"
\* an exception without a `status` property, a response without a status set
NoStatus == -1

\* the error log and the present stage before any request has failed
NoError == [message |-> "", stack |-> Undefined, status |-> NoStatus, liqID |-> Undefined]

LogIdle ==
  /\ errorsEphemeral = <<>>
  /\ ncaptured = 0
  /\ nappended = 0
  /\ clock = 0
  /\ lastOp = "none"
  /\ logBefore = <<>>
  /\ lastError = NoError

NotPresented == [done |-> FALSE]
NoPending == [error |-> NoError, req |-> [accepts |-> {}], res |-> [headersSent |-> FALSE]]

PresentIdle ==
  /\ pending = NoPending
  /\ presented = NotPresented

\* before appInit is called
NoOptions == [serverHome |-> Undefined, skipCorePlugins |-> FALSE, pluginPaths |-> <<>>,
              noAPIUpdate |-> FALSE, pluginsPath |-> <<>>, app |-> FALSE]
NoExt == [handlerPlugins |-> <<>>, handlers |-> <<>>, pendingHandlers |-> <<>>,
          setupMethods |-> <<>>, serverHome |-> Undefined,
          serverSettings |-> Undefined, localSettings |-> "{}", invoked |-> <<>>]

\* the directories and the settings files in them
Dirs == {"/home/liq", "/srv/liq"}
ServerSettingsPath(dir) == dir \o "/server-settings.yaml"
LocalSettingsPath(dir) == dir \o "/local-settings.yaml"
SettingsPaths == {ServerSettingsPath(d) : d \in Dirs} \cup {LocalSettingsPath(d) : d \in Dirs}
Absent == "absent"
EmptyDisk == [f \in SettingsPaths |-> Absent]
NoApp == [stack |-> <<>>, ext |-> NoExt, hasExt |-> FALSE]
NoRunner == [queue |-> <<>>, sealed |-> FALSE, awaited |-> FALSE]

\* no request has been dispatched
NotObserved == [done |-> FALSE, stack |-> <<>>, during |-> FALSE, errors |-> <<>>,
                thrown |-> NoError, presents |-> 0]

\* app.reload has not been called
ReloadIdle ==
  /\ detached = FALSE
  /\ served = NoApp
  /\ pre = NoApp
  /\ reloads = 0
  /\ observed = NotObserved
  /\ nreq = 0

BootIdle ==
  /\ ReloadIdle
  /\ options = NoOptions
  /\ pc = "idle"
  /\ app = NoApp
  /\ remaining = <<>>
  /\ depRunner = NoRunner
  /\ files = {}
  /\ liqHome = "/home/liq"
  /\ disk = EmptyDisk
  /\ fsLog = <<>>
  /\ phaseLog = <<>>

(***************************************************************************)
(* Command Registry: app.ext.commandPaths and app.ext.addCommandPath       *)
(***************************************************************************)

MaxCalls == 3
MaxPathLen == 2

\* segment strings tried; "_parameters" is the key the registry itself uses,
\* "constructor" is a key every JS object inherits from its prototype
Segs == {"a", "_parameters", "constructor"}
Keys == Segs \cup {"_parameters", "constructor"}

\* parameter objects are references; undefined is a legal argument
ParamRefs == {"P1", "P2"}
ParamArgs == ParamRefs \cup {Undefined}

RECURSIVE SeqsUpTo(_, _)
SeqsUpTo(S, n) ==
  IF n = 0 THEN {<<>>}
  ELSE LET shorter == SeqsUpTo(S, n - 1)
       IN shorter \cup {Append(s, x) : s \in {t \in shorter : Len(t) = n - 1}, x \in S}

CommandPaths == SeqsUpTo(Segs, MaxPathLen)

\* the two built-in function objects reachable through "constructor"
ObjectCtor == 1
FunctionCtor == 2
\* app.ext.commandPaths : {}
RootNode == 3

NoOwn == [k \in Keys |-> 0]
\* `{}`
EmptyObject == [kind |-> "obj", own |-> NoOwn, ret |-> Undefined]
\* `() => parameters`
Accessor(parameters) == [kind |-> "fn", own |-> NoOwn, ret |-> parameters]
BuiltinFn == [kind |-> "fn", own |-> NoOwn, ret |-> Undefined]

InitNodes == <<BuiltinFn, BuiltinFn, EmptyObject>>

\* `pathBit in frontier`: own property or one inherited from the prototype
HasKey(h, n, k) == h[n].own[k] # 0 \/ k = "constructor"

\* `frontier[pathBit]`; 0 stands for undefined
GetKey(h, n, k) ==
  IF h[n].own[k] # 0 THEN h[n].own[k]
  ELSE IF k = "constructor"
       THEN (IF h[n].kind = "obj" THEN ObjectCtor ELSE FunctionCtor)
       ELSE 0

SetKey(h, n, k, v) == [h EXCEPT ![n].own[k] = v]

\* the for loop of addCommandPath: returns the heap and the final frontier
RECURSIVE WalkCreate(_, _, _)
WalkCreate(h, frontier, path) ==
  IF path = <<>> THEN [heap |-> h, frontier |-> frontier]
  ELSE LET pathBit == Head(path)
           h2 == IF ~HasKey(h, frontier, pathBit)
                 THEN SetKey(Append(h, EmptyObject), frontier, pathBit, Len(h) + 1)
                 ELSE h
       IN WalkCreate(h2, GetKey(h2, frontier, pathBit), Tail(path))

\* `frontier._parameters !== undefined`
AlreadyRegisteredNever(h, n) == FALSE
AlreadyRegistered(h, n) == GetKey(h, n, "_parameters") # 0

\* the value stored by `frontier._parameters = () => parameters`
StoredAccessor(parameters) == Accessor(parameters)

\* the whole of app.ext.addCommandPath as a function of the heap
AddCommandPathResult(h, commandPath, parameters) ==
  LET w == WalkCreate(h, RootNode, commandPath)
  IN IF AlreadyRegistered(w.heap, w.frontier)
     THEN [heap |-> w.heap, ok |-> FALSE, error |-> "Non-unique command path"]
     ELSE [heap |-> SetKey(Append(w.heap, StoredAccessor(parameters)),
                           w.frontier, "_parameters", Len(w.heap) + 1),
           ok |-> TRUE, error |-> Undefined]

\* a reader's walk down the trie along a path; 0 when a segment is missing
RECURSIVE WalkRead(_, _, _)
WalkRead(h, n, path) ==
  IF n = 0 \/ path = <<>> THEN n
  ELSE WalkRead(h, IF HasKey(h, n, Head(path)) THEN GetKey(h, n, Head(path)) ELSE 0,
                Tail(path))

\* `node._parameters()` at the end of the walk
Retrieve(h, path) ==
  LET n == WalkRead(h, RootNode, path)
      acc == IF n = 0 THEN 0 ELSE GetKey(h, n, "_parameters")
  IN IF acc = 0 THEN [found |-> FALSE, value |-> Undefined]
     ELSE [found |-> TRUE, value |-> h[acc].ret]

NoCall == [n |-> 0, path |-> <<>>, parameters |-> Undefined, ok |-> TRUE,
           error |-> Undefined, before |-> InitNodes]

TrieIdle ==
  /\ nodes = InitNodes
  /\ calls = <<>>
  /\ lastCall = NoCall

InitTrie ==
  /\ TrieIdle
  /\ LogIdle
  /\ PresentIdle
  /\ BootIdle

AddCommandPath(commandPath, parameters) ==
  /\ Len(calls) < MaxCalls
  /\ LET r == AddCommandPathResult(nodes, commandPath, parameters)
     IN /\ nodes' = r.heap
        /\ calls' = Append(calls, [path |-> commandPath, parameters |-> parameters,
                                   ok |-> r.ok])
        /\ lastCall' = [n |-> Len(calls) + 1, path |-> commandPath,
                        parameters |-> parameters, ok |-> r.ok, error |-> r.error,
                        before |-> nodes]
  /\ UNCHANGED logVars
  /\ UNCHANGED presentVars
  /\ UNCHANGED bootVars

NextTrie ==
  \E commandPath \in CommandPaths, parameters \in ParamArgs :
    AddCommandPath(commandPath, parameters)

SpecTrie == InitTrie /\ [][NextTrie]_vars

\* the calls that registered their path: the successful ones
Registered(cs) == {i \in 1..Len(cs) : cs[i].ok}
\* the calls whose segment sequence differs from every earlier call's
FirstOfPath(cs) == {i \in 1..Len(cs) : \A j \in 1..(i - 1) : cs[j].path # cs[i].path}

\* C1: distinct segment sequences registered in any order all succeed and each
\* one retrieves exactly the parameters reference passed for it.
C1_DistinctPathsRetrievable ==
  \A i \in FirstOfPath(calls) :
    /\ calls[i].ok
    /\ Retrieve(nodes, calls[i].path) = [found |-> TRUE, value |-> calls[i].parameters]

\* C2: a second addCommandPath for a registered segment sequence fails with
\* 'Non-unique command path', leaves the trie as it was before the call, and the
\* first registration's parameters are still the ones retrieved.
C2_SecondRegistrationFails ==
  \A i \in Registered(calls) :
    (lastCall.n > i /\ lastCall.path = calls[i].path) =>
      /\ ~lastCall.ok
      /\ lastCall.error = "Non-unique command path"
      /\ nodes = lastCall.before
      /\ Retrieve(nodes, calls[i].path) = [found |-> TRUE, value |-> calls[i].parameters]

C2_Witness ==
  /\ lastCall.n = 3
  /\ calls[1].ok /\ calls[1].path = <<"a">> /\ calls[1].parameters = "P1"
  /\ calls[2].ok /\ calls[2].path = <<"a", "_parameters">>
  /\ lastCall.path = <<"a">> /\ lastCall.parameters = Undefined
  /\ ~lastCall.ok

(***************************************************************************)
(* Error pipeline, capture stage: the first error middleware and makeID    *)
(***************************************************************************)

\* `errors.length > 1000`
Cap == 1000

\* const characters (notice no 'l' or '1')
characters == "abcdefghijkmnopqrstuvwxyz023456789"
charactersLength == Len(characters)
\* makeID's default length
IDLength == 5

\* characters.charAt(i), i counted from 0
CharAt(str, i) == SubSeq(str, i + 1, i + 1)

\* makeID; draws[k] is Math.floor(Math.random() * charactersLength) of the
\* k-th iteration
RECURSIVE MakeIDFrom(_, _, _, _)
MakeIDFrom(result, counter, length, draws) ==
  IF counter < length
  THEN MakeIDFrom(result \o CharAt(characters, draws[counter + 1]), counter + 1,
                  length, draws)
  ELSE result

MakeID(draws) == MakeIDFrom("", 0, IDLength, draws)

\* the guard of the eviction loop after i iterations on a sequence that had
\* length len when the loop started: errors.length > 1000 && i < errors.length
EvictGuard(len, i) == len - i > Cap /\ i < len - i

\* the number of iterations of the eviction loop: every iteration shifts one
\* record and adds one to i, so it is the first i at which the guard fails
EvictCount(len) ==
  CHOOSE k \in 0..len : ~EvictGuard(len, k) /\ \A j \in 0..(k - 1) : EvictGuard(len, j)

\* errors.shift() repeated EvictCount times
EvictNewest(errors) == SubSeq(errors, 1, Len(errors) - EvictCount(Len(errors)))
Evict(errors) == SubSeq(errors, EvictCount(Len(errors)) + 1, Len(errors))

\* the record pushed by the capture stage
ErrorRecord(errorID, error, now) ==
  [id |-> errorID, message |-> error.message, stack |-> error.stack, timestamp |-> now]

\* the first error middleware: (error, req, res, next) => { ... next(error) }
Capture(error, draws) ==
  LET errorID == MakeID(draws)
  IN /\ errorsEphemeral' =
          Evict(Append(errorsEphemeral, ErrorRecord(errorID, error, clock)))
     /\ lastError' = [error EXCEPT !.liqID = errorID]
     /\ ncaptured' = ncaptured + 1
     /\ clock' = clock + 1
     /\ lastOp' = "capture"
     /\ logBefore' = errorsEphemeral
     /\ UNCHANGED nappended
     /\ UNCHANGED trieVars
     /\ UNCHANGED presentVars
     /\ UNCHANGED bootVars

\* another holder of app.ext (a handler or a plugin) pushes k records onto
\* app.ext.errorsEphemeral between two runs of the capture stage
ExternalAppend(k) ==
  /\ errorsEphemeral' =
       errorsEphemeral \o [i \in 1..k |->
         [id |-> "ext", message |-> <<"ext", nappended, i>>, stack |-> Undefined,
          timestamp |-> clock]]
  /\ nappended' = nappended + 1
  /\ lastOp' = "append"
  /\ logBefore' = errorsEphemeral
  /\ UNCHANGED <<ncaptured, clock, lastError>>
  /\ UNCHANGED trieVars
  /\ UNCHANGED presentVars
  /\ UNCHANGED bootVars

\* the k-th exception of a run: its message tells the exceptions apart
Exception(k) ==
  [message |-> <<"failure", k>>, stack |-> "Error: failure", status |-> NoStatus,
   liqID |-> Undefined]

InitLog ==
  /\ TrieIdle
  /\ LogIdle
  /\ PresentIdle
  /\ BootIdle

\* --- exceptions captured one after another -------------------------------
MaxCaptures == 1003
ZeroDraws == <<0, 0, 0, 0, 0>>

NextCapture ==
  /\ ncaptured < MaxCaptures
  /\ Capture(Exception(ncaptured + 1), ZeroDraws)

SpecCapture == InitLog /\ [][NextCapture]_vars

\* C3: once more than 1000 exceptions have been captured one after another,
\* the ephemeral sequence holds exactly 1000 records: those of the last 1000
\* captured exceptions, in the order they were captured.
C3_KeepsLast1000 ==
  ncaptured > 1000 =>
    /\ Len(errorsEphemeral) = 1000
    /\ \A i \in 1..1000 :
         errorsEphemeral[i].message = <<"failure", ncaptured - 1000 + i>>

C3_Witness ==
  /\ ncaptured = 1002
  /\ lastOp = "capture"
  /\ Len(errorsEphemeral) = 1000
  /\ errorsEphemeral[1].message = <<"failure", 3>>

\* --- the log is also appended to between captures ------------------------
MaxBursts == 2
MaxBurstCaptures == 3
BurstSizes == {1, 1000, 2001}

NextBurst ==
  \/ /\ ncaptured < MaxBurstCaptures
     /\ Capture(Exception(ncaptured + 1), ZeroDraws)
  \/ /\ nappended < MaxBursts
     /\ \E k \in BurstSizes : ExternalAppend(k)

SpecBurst == InitLog /\ [][NextBurst]_vars

\* C4: whatever length the sequence had when the capture stage ran, when the
\* stage returns the sequence holds at most 1000 records, and what was removed
\* are the oldest records: what is left is the tail of the old sequence
\* followed by the new record.
C4_CaptureRestoresCap ==
  lastOp = "capture" =>
    LET n == Len(errorsEphemeral)
        m == Len(logBefore) + 1
    IN /\ n <= 1000
       /\ n >= 1 /\ n <= m
       /\ \A i \in 1..(n - 1) : errorsEphemeral[i] = logBefore[m - n + i]
       /\ errorsEphemeral[n].id = lastError.liqID
       /\ errorsEphemeral[n].message = lastError.message

\* --- correlation IDs -----------------------------------------------------
MaxIDCaptures == 2
\* outcomes of Math.floor(Math.random() * charactersLength) that are tried
DrawValues == {0, charactersLength - 1}

NextIDs ==
  /\ ncaptured < MaxIDCaptures
  /\ \E draws \in [1..IDLength -> DrawValues] :
       Capture(Exception(ncaptured + 1), draws)

SpecIDs == InitLog /\ [][NextIDs]_vars

WellFormedID(id) ==
  /\ Len(id) = 5
  /\ \A i \in 1..Len(id) :
       \E j \in 1..Len("abcdefghijkmnopqrstuvwxyz023456789") :
         SubSeq(id, i, i) = SubSeq("abcdefghijkmnopqrstuvwxyz023456789", j, j)

\* C5: any two captured exceptions have different correlation IDs, every ID
\* is 5 characters of the alphabet, and the record appended for an exception
\* stores the ID attached to it.
C5_DistinctWellFormedIDs ==
  /\ \A i, j \in 1..Len(errorsEphemeral) :
       i # j => errorsEphemeral[i].id # errorsEphemeral[j].id
  /\ \A i \in 1..Len(errorsEphemeral) : WellFormedID(errorsEphemeral[i].id)
  /\ lastOp = "capture" =>
       errorsEphemeral[Len(errorsEphemeral)].id = lastError.liqID

(***************************************************************************)
(* Error pipeline, present stage: the second error middleware              *)
(***************************************************************************)

\* const statusText
statusText ==
  (400 :> "BadRequest") @@ (401 :> "Unauthorized") @@ (402 :> "PaymentRequired") @@
  (403 :> "Forbidden") @@ (404 :> "NotFound") @@ (405 :> "MethodNotAllowed") @@
  (406 :> "NotAcceptable") @@ (407 :> "ProxyAuthenticationRequired") @@
  (408 :> "RequestTimeout") @@ (409 :> "Conflict") @@ (410 :> "Gone") @@
  (411 :> "LengthRequired") @@ (412 :> "PreconditionFailed") @@
  (413 :> "PayloadTooLarge") @@ (414 :> "URITooLong") @@
  (415 :> "UnsupportedMediaType") @@ (416 :> "RangeNotSatisfiable") @@
  (417 :> "ExpectationFailed") @@ (418 :> "ImATeapot") @@
  (421 :> "MisdirectedRequest") @@ (422 :> "UnprocessableEntity") @@
  (423 :> "Locked") @@ (424 :> "FailedDependency") @@ (425 :> "TooEarly") @@
  (426 :> "UpgradeRequired") @@ (428 :> "PreconditionRequired") @@
  (429 :> "TooManyRequests") @@ (431 :> "RequestHeaderFieldsTooLarge") @@
  (451 :> "UnavailableForLegalReasons") @@ (500 :> "InternalServerError") @@
  (501 :> "NotImplemented") @@ (502 :> "BadGateway") @@
  (503 :> "ServiceUnavailable") @@ (504 :> "GatewayTimeout") @@
  (505 :> "HTTPVersionNotSupported") @@ (506 :> "VariantAlsoNegotiates") @@
  (507 :> "InsufficientStorage") @@ (508 :> "LoopDetected") @@
  (509 :> "BandwidthLimitExceeded") @@ (510 :> "NotExtended") @@
  (511 :> "NetworkAuthenticationRequired")

\* `${statusText[status]}`: a missing key interpolates as 'undefined'
StatusName(status) ==
  IF status \in DOMAIN statusText THEN statusText[status] ELSE "undefined"

\* `error.status || 500`: undefined and 0 are falsy
SelectStatus(error) ==
  IF error.status = NoStatus \/ error.status = 0 THEN 500 ELSE error.status

\* const errorSource
ErrorSource(status) ==
  IF status >= 400 /\ status < 500 THEN "Client"
  ELSE IF status >= 500 /\ status < 600 THEN "Server"
  ELSE "Unknown"

\* `error.stack` as a condition: undefined and '' are falsy
Truthy(str) == str # Undefined /\ str # ""

\* let msg = `<error>...` plus the stack or the reference
ComposeMsg(error, status) ==
  ("<error>" \o ErrorSource(status) \o " error " \o ToString(status) \o ": "
    \o StatusName(status) \o "<rst>\n\n<em>" \o error.message \o "<rst>\n\n")
  \o (IF error.liqID = Undefined /\ Truthy(error.stack)
      THEN error.stack
      ELSE "error ref: <code>/server/errors/" \o error.liqID \o "<rst>")

Lower == {"a", "b", "c", "d", "e", "f", "g", "h", "i", "j", "k", "l", "m", "n", "o",
          "p", "q", "r", "s", "t", "u", "v", "w", "x", "y", "z"}

\* where a match of /<[a-z]+>/ that starts at i ends; 0 when none starts there
TagEnd(str, i) ==
  IF SubSeq(str, i, i) # "<" THEN 0
  ELSE LET stop == CHOOSE j \in (i + 1)..(Len(str) + 1) :
                     /\ j = Len(str) + 1 \/ SubSeq(str, j, j) \notin Lower
                     /\ \A k \in (i + 1)..(j - 1) : SubSeq(str, k, k) \in Lower
       IN IF stop > i + 1 /\ stop <= Len(str) /\ SubSeq(str, stop, stop) = ">"
          THEN stop ELSE 0

\* the start of the first match at or after i; 0 when there is none
NextTag(str, i) ==
  LET starts == {j \in i..Len(str) : TagEnd(str, j) # 0}
  IN IF starts = {} THEN 0 ELSE CHOOSE j \in starts : \A k \in starts : j <= k

\* msg.replaceAll(/<[a-z]+>/g, ''): one pass from the left
RECURSIVE ReplaceAllFrom(_, _)
ReplaceAllFrom(str, i) ==
  LET m == NextTag(str, i)
  IN IF m = 0 THEN SubSeq(str, i, Len(str))
     ELSE SubSeq(str, i, m - 1) \o ReplaceAllFrom(str, TagEnd(str, m) + 1)

StripTagsFirstOnly(msg) ==
  LET m == NextTag(msg, 1)
  IN IF m = 0 THEN msg
     ELSE SubSeq(msg, 1, m - 1) \o SubSeq(msg, TagEnd(msg, m) + 1, Len(msg))
StripTags(msg) == ReplaceAllFrom(msg, 1)

\* req.accepts(type) for a request whose Accept header admits the types in
\* req.accepts
Accepts(req, type) == type \in req.accepts

\* `if (res.headersSent)`
HeadersSentIgnored(res) == FALSE
HeadersSent(res) == res.headersSent

\* the second error middleware as a function of its arguments
PresentResult(error, req, res) ==
  IF HeadersSent(res)
  THEN [done |-> TRUE, error |-> error, req |-> req, res |-> res,
        statusCode |-> NoStatus, contentType |-> Undefined, sent |-> FALSE,
        body |-> Undefined, msg |-> Undefined, nextCalled |-> TRUE, nextError |-> error]
  ELSE
    LET status == SelectStatus(error)
        msg == ComposeMsg(error, status)
    IN IF Accepts(req, "html")
       THEN [done |-> TRUE, error |-> error, req |-> req, res |-> res,
             statusCode |-> status, contentType |-> Undefined, sent |-> FALSE,
             body |-> Undefined, msg |-> msg, nextCalled |-> TRUE, nextError |-> error]
       ELSE IF Accepts(req, "text/terminal")
       THEN [done |-> TRUE, error |-> error, req |-> req, res |-> res,
             statusCode |-> status, contentType |-> "text/terminal", sent |-> TRUE,
             body |-> msg, msg |-> msg, nextCalled |-> FALSE, nextError |-> NoError]
       ELSE [done |-> TRUE, error |-> error, req |-> req, res |-> res,
             statusCode |-> status, contentType |-> "text/plain", sent |-> TRUE,
             body |-> StripTags(msg), msg |-> msg, nextCalled |-> FALSE,
             nextError |-> NoError]

\* express calls the stage once with the exception of a failed request
Present ==
  /\ ~presented.done
  /\ presented' = PresentResult(pending.error, pending.req, pending.res)
  /\ UNCHANGED pending
  /\ UNCHANGED trieVars
  /\ UNCHANGED logVars
  /\ UNCHANGED bootVars

\* the exceptions, requests and responses the stage is applied to
Messages == {"boom", "no <b> here", "x<<em>y>"}
Stacks == {Undefined, "", "Error: boom\n    at <anonymous>"}
LiqIDs == {Undefined, MakeID(ZeroDraws)}
Statuses == {NoStatus, 0, 200, 399, 400, 404, 419, 451, 499, 500, 503, 511, 512,
             599, 600}
Errors == [message : Messages, stack : Stacks, status : Statuses, liqID : LiqIDs]
Requests == [accepts : SUBSET {"html", "text/terminal"}]
Responses == [headersSent : BOOLEAN]

InitPresent ==
  /\ TrieIdle
  /\ LogIdle
  /\ pending \in [error : Errors, req : Requests, res : Responses]
  /\ presented = NotPresented
  /\ BootIdle

NextPresent == Present

SpecPresent == InitPresent /\ [][NextPresent]_vars

Contains(str, sub) ==
  \E i \in 1..(Len(str) - Len(sub) + 1) : SubSeq(str, i, i + Len(sub) - 1) = sub

\* the present stage composed a body for the latest exception
Composed == presented.done /\ ~presented.res.headersSent

\* C6: the composed body has the pointer /server/errors/{id} and not the raw
\* stack exactly when the exception carries a correlation ID; without an ID
\* it has the raw stack and no pointer.
C6_PointerIffCorrelationID ==
  Composed =>
    LET e == presented.error
        pointer == Contains(presented.msg, "/server/errors/")
        rawStack == Truthy(e.stack) /\ Contains(presented.msg, e.stack)
    IN /\ (pointer /\ ~rawStack) <=> (e.liqID # Undefined)
       /\ e.liqID = Undefined => (~pointer /\ (e.stack # Undefined => rawStack))

\* the positions of str inside a match of /<[a-z]+>/
InsideTag(str, p) ==
  \E a \in 1..p, b \in p..Len(str) :
    /\ SubSeq(str, a, a) = "<" /\ SubSeq(str, b, b) = ">" /\ b > a + 1
    /\ \A k \in (a + 1)..(b - 1) : SubSeq(str, k, k) \in Lower

\* body is str without the characters of its tags, the rest in order
IsWithoutTags(body, str) ==
  LET kept == {p \in 1..Len(str) : ~InsideTag(str, p)}
  IN /\ Len(body) = Cardinality(kept)
     /\ \A p \in kept :
          SubSeq(body, Cardinality({q \in kept : q <= p}),
                 Cardinality({q \in kept : q <= p})) = SubSeq(str, p, p)

\* the message as line 173 and 175-180 lay it out, with its markup
HasMarkup(msg) ==
  /\ SubSeq(msg, 1, 7) = "<error>"
  /\ Contains(msg, "<rst>\n\n<em>")

\* C7 as stated: every client that accepts the terminal type is sent the
\* message with its tags and text/terminal; one that accepts neither html nor
\* the terminal type is sent the message without tags as text/plain; only an
\* html-accepting client is handed to default delivery with nothing sent.
C7_NegotiationAsStated ==
  Composed =>
    LET html == "html" \in presented.req.accepts
        terminal == "text/terminal" \in presented.req.accepts
    IN /\ terminal =>
            /\ presented.sent /\ presented.contentType = "text/terminal"
            /\ presented.body = presented.msg /\ HasMarkup(presented.body)
       /\ (~html /\ ~terminal) =>
            /\ presented.sent /\ presented.contentType = "text/plain"
            /\ IsWithoutTags(presented.body, presented.msg)
       /\ (~presented.sent /\ presented.nextCalled) => html

\* C7 amended: html is asked first.  A client that accepts html, whatever else
\* it accepts, is handed to default delivery with the same exception and no
\* body or content type; one that accepts the terminal type and not html is
\* sent the message with its tags as text/terminal; one that accepts neither
\* is sent the message without the characters of its tags as text/plain.
C7_Negotiation ==
  Composed =>
    LET html == "html" \in presented.req.accepts
        terminal == "text/terminal" \in presented.req.accepts
    IN /\ html =>
            /\ ~presented.sent /\ presented.contentType = Undefined
            /\ presented.nextCalled /\ presented.nextError = presented.error
       /\ (~html /\ terminal) =>
            /\ presented.sent /\ presented.contentType = "text/terminal"
            /\ presented.body = presented.msg /\ HasMarkup(presented.body)
            /\ ~presented.nextCalled
       /\ (~html /\ ~terminal) =>
            /\ presented.sent /\ presented.contentType = "text/plain"
            /\ IsWithoutTags(presented.body, presented.msg)
            /\ HasMarkup(presented.msg)
            /\ ~presented.nextCalled

C7_Witness ==
  /\ Composed
  /\ presented.req.accepts = {}
  /\ presented.error.message = "no <b> here"
  /\ presented.sent
  /\ presented.contentType = "text/plain"
  /\ Contains(presented.body, "no  here")
  /\ ~Contains(presented.body, "<rst>")

\* C8: the response status is the declared status, or 500 when none is
\* declared; the class in the message is Client for 400..499, Server for
\* 500..599, Unknown otherwise; the message has a readable name of the status.
C8_StatusClassAndName ==
  Composed =>
    LET declared == presented.error.status
        status == presented.statusCode
        class == IF status \in 400..499 THEN "Client"
                 ELSE IF status \in 500..599 THEN "Server" ELSE "Unknown"
    IN /\ status = (IF declared = NoStatus THEN 500 ELSE declared)
       /\ SubSeq(presented.msg, 1, Len("<error>" \o class \o " error "))
            = "<error>" \o class \o " error "
       /\ status \in DOMAIN statusText
       /\ Contains(presented.msg, ToString(status) \o ": " \o statusText[status] \o "<rst>")

\* C16: when the response has already begun, the present stage sets no
\* status and no header, sends no body, and passes the same exception on.
C16_HeadersSentDefers ==
  (presented.done /\ presented.res.headersSent) =>
    /\ presented.statusCode = NoStatus
    /\ presented.contentType = Undefined
    /\ ~presented.sent
    /\ presented.body = Undefined
    /\ presented.nextCalled
    /\ presented.nextError = presented.error

C16_Witness ==
  /\ presented.done
  /\ presented.res.headersSent
  /\ presented.error.status = 404
  /\ presented.req.accepts = {"text/terminal"}
  /\ presented.nextCalled
  /\ ~presented.sent

(***************************************************************************)
(* Bootstrap: appInit                                                      *)
(***************************************************************************)

\* import { handlers } from './handlers'
CoreHandlers == <<"add", "details", "list", "remove", "registries">>

\* the plugin packages that exist: what loading one contributes
PluginNames == {"core", "c1", "c2", "p1", "p2"}
PluginDef(name) ==
  IF name = "core" THEN [handlers |-> CoreHandlers, pending |-> <<"core/late">>, setup |-> <<>>]
  ELSE IF name = "c2" THEN [handlers |-> <<"c2/get", "c2/put">>, pending |-> <<>>, setup |-> <<>>]
  ELSE IF name = "c1" THEN [handlers |-> <<"c1/get">>, pending |-> <<>>, setup |-> <<"c1/setup">>]
  ELSE IF name = "p1" THEN [handlers |-> <<"p1/get">>, pending |-> <<"p1/late">>, setup |-> <<>>]
  ELSE [handlers |-> <<"p2/get">>, pending |-> <<>>, setup |-> <<"p2/setup">>]

Started(b, phase) == [b EXCEPT !.log = Append(@, <<"start", phase>>)]
Ended(b, phase) == [b EXCEPT !.log = Append(@, <<"end", phase>>)]
\* app.use(middleware): one more layer at the end of the router stack
Use(b, middleware) == [b EXCEPT !.app.stack = Append(@, <<"use", middleware>>)]

\* app.use(express.json()); app.use(express.urlencoded(...)); app.use(fileUpload(...))
InstallBodyParsing(b) ==
  Ended(Use(Use(Use(Started(b, "bodyParsing"), "json"), "urlencoded"), "fileUpload"),
        "bodyParsing")

\* existsSync(path)
ExistsSync(d, path) == path \in DOMAIN d /\ d[path] # Absent

\* getServerSettings: the path is built from getLiqHome(); the function
\* declares no parameter, so the serverHome passed by appInit is not used
GetServerSettings(b, serverHome) ==
  LET serverSettingsPath == ServerSettingsPath(b.liqHome)
      b1 == [b EXCEPT !.fsLog = Append(@, <<"existsSync", serverSettingsPath>>)]
  IN IF ExistsSync(b.disk, serverSettingsPath)
     THEN [b1 EXCEPT !.fsLog = Append(@, <<"readFJSON", serverSettingsPath>>),
                     !.app.ext.serverSettings = b.disk[serverSettingsPath]]
     ELSE [b1 EXCEPT !.fsLog = Append(@, <<"writeFJSON", serverSettingsPath>>),
                     !.disk[serverSettingsPath] = "{registries: []}",
                     !.app.ext.serverSettings = "{registries: []}"]

\* lines 104-107: local-settings.yaml of serverHome, when it exists
ReadLocalSettings(b) ==
  LET localSettingsPath == LocalSettingsPath(b.options.serverHome)
      b1 == [b EXCEPT !.fsLog = Append(@, <<"existsSync", localSettingsPath>>)]
  IN IF ExistsSync(b.disk, localSettingsPath)
     THEN [b1 EXCEPT !.fsLog = Append(@, <<"readFJSON", localSettingsPath>>),
                     !.app.ext.localSettings = b.disk[localSettingsPath]]
     ELSE b1

\* app.ext = { ... }, addCommandPath, localSettings, app.reload, app.addSetupTask
BuildContext(b) ==
  Ended(ReadLocalSettings(GetServerSettings(
          [Started(b, "context") EXCEPT
             !.app.ext = [NoExt EXCEPT !.serverHome = b.options.serverHome],
             !.app.hasExt = TRUE],
          b.options.serverHome)),
        "context")

\* registerHandlers(app, { name, handlers, ... }): a route and a manifest entry
\* for each handler
RECURSIVE RegisterEach(_, _, _)
RegisterEach(a, name, handlers) ==
  IF handlers = <<>> THEN a
  ELSE RegisterEach([a EXCEPT !.stack = Append(@, <<"route", Head(handlers)>>),
                              !.ext.handlers = Append(@, Head(handlers))],
                    name, Tail(handlers))

RegisterHandlers(a, name, handlers) ==
  [RegisterEach(a, name, handlers) EXCEPT !.ext.handlerPlugins = Append(@, name)]

\* loadPlugin({ app, dir, pkg, ... }): the plugin's handlers are registered, its
\* deferred registrations and setup tasks are queued
LoadPluginInto(a, name) ==
  LET def == PluginDef(name)
      a2 == RegisterHandlers(a, name, def.handlers)
  IN [a2 EXCEPT !.ext.pendingHandlers = @ \o def.pending,
                !.ext.setupMethods = @ \o def.setup]

RECURSIVE LoadPluginsInto(_, _)
LoadPluginsInto(a, names) ==
  IF names = <<>> THEN a ELSE LoadPluginsInto(LoadPluginInto(a, Head(names)), Tail(names))

\* registerHandlers(app, { name : 'core', ... })
RegisterCore(b) ==
  Ended([Started(b, "coreHandlers") EXCEPT !.app = LoadPluginInto(b.app, "core")],
        "coreHandlers")

\* pendingHandler(): the deferred registration adds its route; the deferred
\* registration of p1 queues one more while the flush is running
InvokePending(a, h) ==
  [a EXCEPT !.stack = Append(@, <<"route", h>>),
            !.ext.invoked = Append(@, h),
            !.ext.pendingHandlers = IF h = "p1/late" THEN Append(@, "p1/later") ELSE @]

\* the flush over the handlers that were queued when it started
RECURSIVE FlushUpTo(_, _, _)
FlushUpTo(a, i, n) ==
  IF i > n THEN a ELSE FlushUpTo(InvokePending(a, a.ext.pendingHandlers[i]), i + 1, n)

FlushFromSnapshot(a, i) == FlushUpTo(a, i, Len(a.ext.pendingHandlers))

\* for (const pendingHandler of app.ext.pendingHandlers) { pendingHandler() }:
\* the array iterator reads the length anew at every step
RECURSIVE FlushFrom(_, _)
FlushFrom(a, i) ==
  IF i > Len(a.ext.pendingHandlers) THEN a
  ELSE FlushFrom(InvokePending(a, a.ext.pendingHandlers[i]), i + 1)

FlushPending(b) ==
  Ended([Started(b, "flushPending") EXCEPT !.app = FlushFrom(b.app, 1)], "flushPending")

\* app.use(<log errors>); app.use(<generate user response>)
InstallErrorStagesPresentFirst(b) ==
  Ended(Use(Started(Ended(Use(Started(b, "presentStage"), "present"), "presentStage"),
                    "captureStage"), "capture"), "captureStage")
InstallErrorStages(b) ==
  Ended(Use(Started(Ended(Use(Started(b, "captureStage"), "capture"), "captureStage"),
                    "presentStage"), "present"), "presentStage")

\* lines 138-197: flush, install the stages, call initServerSettings and await
FlushAndInstall(b) ==
  [Started(InstallErrorStages(FlushPending(b)), "serverSettings") EXCEPT
     !.pc = "initServerSettings"]

\* lines 131-136: the next entry of pluginPaths, or on to line 138
NextPluginPath(b) ==
  IF b.remaining # <<>>
  THEN [Started(b, <<"explicitPlugin", Head(b.remaining)>>) EXCEPT !.pc = "readFile"]
  ELSE FlushAndInstall(b)

\* lines 128-131
AfterCoreSkipTestInverted(b) ==
  IF b.options.skipCorePlugins = TRUE
  THEN [Started(b, "conventionalPlugins") EXCEPT !.pc = "loadPlugins"]
  ELSE NextPluginPath(b)
AfterCoreSkipTest(b) ==
  IF b.options.skipCorePlugins # TRUE
  THEN [Started(b, "conventionalPlugins") EXCEPT !.pc = "loadPlugins"]
  ELSE NextPluginPath(b)

\* lines 54-129, up to the first await
FirstSegment(b) ==
  AfterCoreSkipTest(RegisterCore(BuildContext(InstallBodyParsing(b))))

\* lines 199-204: new DependencyRunner, enqueue each, complete(), await()
RECURSIVE EnqueueAll(_, _)
EnqueueAll(r, methods) ==
  IF methods = <<>> THEN r
  ELSE EnqueueAll([r EXCEPT !.queue = Append(@, Head(methods))], Tail(methods))

Drain(b) ==
  LET b1 == Ended([Started(b, "enqueue") EXCEPT
                     !.depRunner = EnqueueAll(NoRunner, b.app.ext.setupMethods)],
                  "enqueue")
      b2 == Ended([Started(b1, "seal") EXCEPT !.depRunner.sealed = TRUE], "seal")
  IN [Started(b2, "await") EXCEPT !.depRunner.awaited = TRUE, !.pc = "await"]

\* lines 206-212
AfterDrain(b) ==
  IF b.options.noAPIUpdate # TRUE
  THEN [Started(b, "manifest") EXCEPT !.pc = "writeFile"]
  ELSE [b EXCEPT !.pc = "resolved"]

Boot == [options |-> options, pc |-> pc, app |-> app, remaining |-> remaining,
         depRunner |-> depRunner, files |-> files, liqHome |-> liqHome, disk |-> disk,
         fsLog |-> fsLog, log |-> phaseLog]

BecomesBoot(b) ==
  /\ pc' = b.pc
  /\ app' = b.app
  /\ remaining' = b.remaining
  /\ depRunner' = b.depRunner
  /\ files' = b.files
  /\ disk' = b.disk
  /\ fsLog' = b.fsLog
  /\ phaseLog' = b.log

Becomes(b) ==
  /\ BecomesBoot(b)
  /\ UNCHANGED options
  /\ UNCHANGED reloadVars
  /\ UNCHANGED liqHome
  /\ UNCHANGED trieVars
  /\ UNCHANGED logVars
  /\ UNCHANGED presentVars

\* `!serverHome`: undefined and '' are falsy
MissingServerHomeNever(o) == FALSE
MissingServerHome(o) == o.serverHome = Undefined \/ o.serverHome = ""

\* an application the caller made with express() and one route of its own
PassedApp == [stack |-> <<(<<"route", "callers">>)>>, ext |-> NoExt, hasExt |-> FALSE]

\* `app = app || express()`
AppOrExpress(b) == IF b.options.app THEN b ELSE [b EXCEPT !.app = NoApp]

\* appInit(options) is called and runs to its first await
AppInit ==
  /\ pc = "idle"
  /\ IF MissingServerHome(options)
     THEN Becomes([Boot EXCEPT !.pc = "rejected"])
     ELSE Becomes(FirstSegment(AppOrExpress([Boot EXCEPT
                                  !.remaining = options.pluginPaths])))

\* await loadPlugins(app, options) returns
LoadPluginsDone ==
  /\ pc = "loadPlugins"
  /\ Becomes(NextPluginPath(Ended([Boot EXCEPT
                  !.app = LoadPluginsInto(app, options.pluginsPath)],
                "conventionalPlugins")))

\* await fs.readFile(<package.json of the plugin>) returns
ReadFileDone ==
  /\ pc = "readFile"
  /\ Becomes([Boot EXCEPT !.pc = "loadPlugin"])

\* await loadPlugin(...) returns
LoadPluginDone ==
  /\ pc = "loadPlugin"
  /\ Becomes(NextPluginPath(Ended([Boot EXCEPT
                  !.app = LoadPluginInto(app, Head(remaining)),
                  !.remaining = Tail(remaining)],
                <<"explicitPlugin", Head(remaining)>>)))

\* await initServerSettings(...) returns
InitServerSettingsDone ==
  /\ pc = "initServerSettings"
  /\ Becomes(Drain(Ended(Boot, "serverSettings")))

\* await depRunner.await() returns
AwaitDone ==
  /\ pc = "await"
  /\ Becomes(AfterDrain(Ended(Boot, "await")))

\* await fs.writeFile(apiSpecFile, ...) returns
WriteFileDone ==
  /\ pc = "writeFile"
  /\ Becomes([Ended(Boot, "manifest") EXCEPT
                !.files = @ \cup {<<"manifest", app.ext.handlers>>},
                !.pc = "resolved"])

\* the awaited promise rejects: appInit has no catch, so it rejects
AwaitedRejects ==
  /\ pc \in {"loadPlugins", "readFile", "loadPlugin", "initServerSettings", "await",
              "writeFile"}
  /\ Becomes([Boot EXCEPT !.pc = "rejected"])

PluginPathChoices == {<<>>, <<"p1">>, <<"p1", "p2">>, <<"p2", "p1">>}
PluginsPathChoices == {<<>>, <<"c1">>, <<"c1", "c2">>}

InitBoot ==
  /\ TrieIdle
  /\ LogIdle
  /\ PresentIdle
  /\ ReloadIdle
  /\ options \in [serverHome : {Undefined, "", "/home/liq"}, skipCorePlugins : BOOLEAN,
                  pluginPaths : PluginPathChoices, noAPIUpdate : BOOLEAN,
                  pluginsPath : PluginsPathChoices, app : BOOLEAN]
  /\ pc = "idle"
  /\ app = (IF options.app THEN PassedApp ELSE NoApp)
  /\ remaining = <<>>
  /\ depRunner = NoRunner
  /\ files = {}
  /\ liqHome \in Dirs
  /\ \E here \in SUBSET {ServerSettingsPath(d) : d \in Dirs} :
       \E local \in SUBSET {LocalSettingsPath("/home/liq")} :
         disk = [f \in SettingsPaths |->
                   IF f \in here THEN "{registries: [r1]}"
                   ELSE IF f \in local THEN "{otp: true}" ELSE Absent]
  /\ fsLog = <<>>
  /\ phaseLog = <<>>

NextBoot ==
  \/ AppInit
  \/ LoadPluginsDone
  \/ ReadFileDone
  \/ LoadPluginDone
  \/ InitServerSettingsDone
  \/ AwaitDone
  \/ WriteFileDone
  \/ AwaitedRejects

SpecBoot == InitBoot /\ [][NextBoot]_vars

RECURSIVE ExplicitPhases(_)
ExplicitPhases(paths) ==
  IF paths = <<>> THEN <<>>
  ELSE <<(<<"explicitPlugin", Head(paths)>>)>> \o ExplicitPhases(Tail(paths))

\* the phases after the first two, in the order of the bootstrap sequence
LaterPhases(o) ==
  <<"coreHandlers">>
  \o (IF o.skipCorePlugins THEN <<>> ELSE <<"conventionalPlugins">>)
  \o ExplicitPhases(o.pluginPaths)
  \o <<"flushPending", "captureStage", "presentStage", "serverSettings",
       "enqueue", "seal", "await">>
  \o (IF o.noAPIUpdate THEN <<>> ELSE <<"manifest">>)

RECURSIVE StartEnd(_)
StartEnd(phases) ==
  IF phases = <<>> THEN <<>>
  ELSE <<(<<"start", Head(phases)>>), (<<"end", Head(phases)>>)>> \o StartEnd(Tail(phases))

IsPrefix(s, t) == Len(s) <= Len(t) /\ s = SubSeq(t, 1, Len(s))

\* every phase of the list starts and ends before the next one starts, as far
\* as the bootstrap has got, and all of them are over when appInit resolves
RunsInOrder(phases) ==
  /\ IsPrefix(phaseLog, StartEnd(phases))
  /\ pc = "resolved" => phaseLog = StartEnd(phases)

\* C9 as stated: the Capability Context is built, then body parsing is
\* installed, then core handlers, plugins, flush, capture stage, present
\* stage, server settings, drain and manifest, each over before the next.
C9_PhasesAsStated ==
  RunsInOrder(<<"context", "bodyParsing">> \o LaterPhases(options))

\* C9 amended: body parsing is installed first and the Capability Context
\* (app.ext) is built after it; the other phases follow in the stated order,
\* each over before the next starts.
C9_PhaseOrder ==
  RunsInOrder(<<"bodyParsing", "context">> \o LaterPhases(options))

C9_Witness ==
  /\ pc = "resolved"
  /\ ~options.skipCorePlugins /\ options.pluginsPath = <<"c1">>
  /\ options.pluginPaths = <<"p2", "p1">>
  /\ ~options.noAPIUpdate
  /\ Len(phaseLog) = 2 * 14
  /\ app.stack[Len(app.stack)] = <<"use", "present">>
  /\ files # {}

\* C13: appInit called without serverHome rejects and changes nothing: the
\* passed-in app keeps its stack and gets no app.ext, and no file is tested,
\* read or written.
C13_NoServerHomeNoChange ==
  [][(pc = "idle" /\ options.serverHome \in {Undefined, ""}) =>
       /\ pc' = "rejected"
       /\ app' = app /\ ~app'.hasExt
       /\ disk' = disk /\ fsLog' = <<>> /\ files' = {}
       /\ phaseLog' = <<>> /\ depRunner' = NoRunner]_vars

C13_Witness ==
  /\ pc = "rejected"
  /\ options.serverHome = ""
  /\ options.app
  /\ app = PassedApp
  /\ fsLog = <<>>

\* the settings file of the serverHome that appInit was given
GivenSettingsPath == ServerSettingsPath(options.serverHome)
ContextBuilt == app.hasExt /\ pc \notin {"idle", "rejected"}

\* C14: when server-settings.yaml is absent from the given serverHome the
\* bootstrap creates it there with {registries: []} and uses that value;
\* when it exists there it is read, used and left as it is.
C14_SettingsUnderServerHome ==
  ContextBuilt =>
    \/ /\ <<"writeFJSON", GivenSettingsPath>> \in {fsLog[i] : i \in 1..Len(fsLog)}
       /\ disk[GivenSettingsPath] = "{registries: []}"
       /\ app.ext.serverSettings = "{registries: []}"
    \/ /\ <<"readFJSON", GivenSettingsPath>> \in {fsLog[i] : i \in 1..Len(fsLog)}
       /\ disk[GivenSettingsPath] = "{registries: [r1]}"
       /\ app.ext.serverSettings = "{registries: [r1]}"

\* the plugins of a bootstrap in registration order
ExpectedPlugins(o) ==
  <<"core">> \o (IF o.skipCorePlugins THEN <<>> ELSE o.pluginsPath) \o o.pluginPaths

RECURSIVE HandlersOf(_)
HandlersOf(names) ==
  IF names = <<>> THEN <<>> ELSE PluginDef(Head(names)).handlers \o HandlersOf(Tail(names))

PluginLoadingOver ==
  pc \in {"initServerSettings", "await", "writeFile", "resolved"}

\* C17: plugins are loaded one at a time in registration order: core, the
\* conventional directory unless skipped, then pluginPaths in list order.
\* While the manifest of a plugin is read or the plugin is loaded, every
\* plugin before it is registered in full and none after it has registered
\* anything.
C17_PluginsOneAtATime ==
  ContextBuilt =>
    /\ IsPrefix(app.ext.handlerPlugins, ExpectedPlugins(options))
    /\ app.ext.handlers = HandlersOf(app.ext.handlerPlugins)
    /\ pc = "loadPlugins" => app.ext.handlerPlugins = <<"core">>
    /\ pc \in {"readFile", "loadPlugin"} =>
         Len(app.ext.handlerPlugins) = Len(ExpectedPlugins(options)) - Len(remaining)
    /\ PluginLoadingOver => app.ext.handlerPlugins = ExpectedPlugins(options)

C17_Witness ==
  /\ pc = "readFile"
  /\ options.pluginsPath = <<"c1", "c2">> /\ ~options.skipCorePlugins
  /\ options.pluginPaths = <<"p2", "p1">>
  /\ remaining = <<"p1">>
  /\ app.ext.handlerPlugins = <<"core", "c1", "c2", "p2">>
  /\ app.ext.handlers = CoreHandlers \o <<"c1/get", "c2/get", "c2/put", "p2/get">>

\* where a middleware or route is in the router stack; 0 when it is not there
IndexIn(stack, entry) ==
  IF \E i \in 1..Len(stack) : stack[i] = entry
  THEN CHOOSE i \in 1..Len(stack) : stack[i] = entry /\ \A j \in 1..(i - 1) : stack[j] # entry
  ELSE 0

\* C18: every deferred registration queued in pendingHandlers, also one that
\* is queued by another while the flush runs, is invoked exactly once, in the
\* order queued, after all plugin loading and before the error stages.
C18_PendingFlushedOnce ==
  ContextBuilt =>
    /\ ~PluginLoadingOver => app.ext.invoked = <<>>
    /\ PluginLoadingOver =>
         /\ app.ext.invoked = app.ext.pendingHandlers
         /\ app.ext.handlerPlugins = ExpectedPlugins(options)
         /\ \A i \in 1..Len(app.ext.invoked) :
              /\ IndexIn(app.stack, <<"route", app.ext.invoked[i]>>) > 0
              /\ IndexIn(app.stack, <<"route", app.ext.invoked[i]>>)
                   < IndexIn(app.stack, <<"use", "capture">>)
              /\ \A j \in 1..Len(app.ext.invoked) :
                   app.ext.invoked[j] = app.ext.invoked[i] => j = i

C18_Witness ==
  /\ pc = "initServerSettings"
  /\ options.pluginPaths = <<"p1", "p2">>
  /\ app.ext.pendingHandlers = <<"core/late", "p1/late", "p1/later">>
  /\ app.ext.invoked = <<"core/late", "p1/late", "p1/later">>
  /\ IndexIn(app.stack, <<"route", "p1/later">>) + 1 = IndexIn(app.stack, <<"use", "capture">>)

(***************************************************************************)
(* app.reload and requests dispatched to the served application            *)
(***************************************************************************)
MaxReloads == 1
MaxRequests == 1

\* the application the server dispatches requests to
Live == IF detached THEN served ELSE app

\* a reload that leaves the router stack as it is
ClearStackNot(a) == a
\* app.router.stack = []
ClearStack(a) == [a EXCEPT !.stack = <<>>]

\* app.reload = async(options) => { app.router.stack = []; await appInit(options) }
\* the stack of the served application is emptied and appInit(options) runs
\* to its first await; with no `app` in options it builds a new express()
Reload(opts) ==
  /\ pc = "resolved" \/ (pc = "rejected" /\ reloads > 0)
  /\ reloads < MaxReloads
  /\ LET cleared == ClearStack(Live)
         call == [Boot EXCEPT !.options = opts, !.app = cleared,
                              !.remaining = opts.pluginPaths,
                              !.depRunner = NoRunner, !.log = <<>>]
     IN IF MissingServerHome(opts)
        THEN /\ BecomesBoot([Boot EXCEPT !.pc = "rejected",
                                         !.app = IF detached THEN app ELSE cleared])
             /\ served' = (IF detached THEN cleared ELSE NoApp)
             /\ UNCHANGED detached
             /\ UNCHANGED errorsEphemeral
        ELSE /\ BecomesBoot(FirstSegment(AppOrExpress(call)))
             /\ served' = (IF opts.app THEN NoApp ELSE cleared)
             /\ detached' = ~opts.app
             /\ errorsEphemeral' = <<>>
  /\ options' = opts
  /\ pre' = Live
  /\ reloads' = reloads + 1
  /\ UNCHANGED <<observed, nreq, liqHome>>
  /\ UNCHANGED <<ncaptured, nappended, clock, lastOp, logBefore, lastError>>
  /\ UNCHANGED trieVars
  /\ UNCHANGED presentVars

\* what the capture stage does to the exception and to the sequence
CaptureStep(errors, error, draws, now) ==
  [errors |-> Evict(Append(errors, ErrorRecord(MakeID(draws), error, now))),
   error |-> [error EXCEPT !.liqID = MakeID(draws)]]

\* an exception thrown by a route passes through the error middleware of the
\* router stack in the order they were installed, until one does not call next
RECURSIVE ErrorChain(_, _, _, _, _)
ErrorChain(stack, i, req, res, s) ==
  IF i > Len(stack) \/ s.stopped THEN s
  ELSE IF stack[i] = <<"use", "capture">>
  THEN LET c == CaptureStep(s.errors, s.error, ZeroDraws, s.now)
       IN ErrorChain(stack, i + 1, req, res,
                     [s EXCEPT !.errors = c.errors, !.error = c.error,
                               !.now = @ + 1, !.captures = @ + 1])
  ELSE IF stack[i] = <<"use", "present">>
  THEN LET r == PresentResult(s.error, req, res)
       IN ErrorChain(stack, i + 1, req, res,
                     [s EXCEPT !.reached = s.error, !.result = r, !.presents = @ + 1,
                               !.errorsAtPresent = s.errors,
                               !.stopped = ~r.nextCalled])
  ELSE ErrorChain(stack, i + 1, req, res, s)

HasRoute(stack) == \E i \in 1..Len(stack) : stack[i][1] = "route"

\* a request arrives at the served application; the route it reaches, when
\* there is one, throws `error`
Dispatch(error, req, res) ==
  /\ reloads > 0 \/ pc = "resolved"
  /\ nreq < MaxRequests
  /\ LET stack == Live.stack
         start == [error |-> error, errors |-> errorsEphemeral, now |-> clock,
                   captures |-> 0, presents |-> 0, reached |-> NoError,
                   result |-> NotPresented,
                   errorsAtPresent |-> <<>>, stopped |-> FALSE]
         s == IF HasRoute(stack) THEN ErrorChain(stack, 1, req, res, start) ELSE start
     IN /\ observed' = [done |-> TRUE, stack |-> stack,
                        during |-> pc \notin {"resolved", "rejected"},
                        errors |-> s.errorsAtPresent, thrown |-> error,
                        presents |-> s.presents]
        /\ errorsEphemeral' = s.errors
        /\ clock' = s.now
        /\ ncaptured' = ncaptured + s.captures
        /\ lastError' = (IF s.captures > 0 THEN s.error ELSE lastError)
        /\ lastOp' = (IF s.captures > 0 THEN "capture" ELSE lastOp)
        /\ logBefore' = (IF s.captures > 0 THEN errorsEphemeral ELSE logBefore)
        /\ pending' = (IF s.presents > 0
                       THEN [error |-> s.reached, req |-> req, res |-> res]
                       ELSE pending)
        /\ presented' = (IF s.presents > 0 THEN s.result ELSE presented)
  /\ nreq' = nreq + 1
  /\ UNCHANGED nappended
  /\ UNCHANGED trieVars
  /\ UNCHANGED <<options, pc, app, remaining, depRunner, files, liqHome, disk, fsLog,
                 phaseLog, detached, served, pre, reloads>>

\* the options of the first bootstrap and of the reloads
FirstOptions ==
  [serverHome : {"/home/liq"}, skipCorePlugins : {FALSE},
   pluginPaths : {<<>>, <<"p1">>}, noAPIUpdate : {FALSE},
   pluginsPath : {<<"c1">>}, app : BOOLEAN]
ReloadOptions ==
  [serverHome : {Undefined, "/home/liq"}, skipCorePlugins : {TRUE},
   pluginPaths : {<<"p2">>}, noAPIUpdate : {TRUE},
   pluginsPath : {<<"c1">>}, app : BOOLEAN]
Thrown ==
  {[message |-> "boom", stack |-> "Error: boom\n    at <anonymous>", status |-> NoStatus,
    liqID |-> Undefined],
   [message |-> "gone", stack |-> Undefined, status |-> 404, liqID |-> Undefined]}

Accepting == {[accepts |-> {}], [accepts |-> {"html"}], [accepts |-> {"text/terminal"}]}

InitReload ==
  /\ TrieIdle
  /\ LogIdle
  /\ PresentIdle
  /\ ReloadIdle
  /\ options \in FirstOptions
  /\ pc = "idle"
  /\ app = (IF options.app THEN PassedApp ELSE NoApp)
  /\ remaining = <<>>
  /\ depRunner = NoRunner
  /\ files = {}
  /\ liqHome = "/home/liq"
  /\ disk = EmptyDisk
  /\ fsLog = <<>>
  /\ phaseLog = <<>>

NextReload ==
  \/ NextBoot
  \/ \E opts \in ReloadOptions : Reload(opts)
  \/ \E error \in Thrown : \E req \in Accepting : Dispatch(error, req, [headersSent |-> FALSE])

SpecReload == InitReload /\ [][NextReload]_vars

\* the complete set of routes and error stages of a bootstrap with options o
CompleteFor(stack, o) ==
  /\ Len(stack) >= 2
  /\ stack[Len(stack) - 1] = <<"use", "capture">>
  /\ stack[Len(stack)] = <<"use", "present">>
  /\ LET handlers == HandlersOf(ExpectedPlugins(o))
     IN \A i \in 1..Len(handlers) : IndexIn(stack, <<"route", handlers[i]>>) > 0

\* C15: a request dispatched while app.reload is in progress finds either
\* the complete pre-reload routes and error stages or the complete
\* post-reload ones, never an empty or partly rebuilt router stack.
C15_RequestSeesPreOrPost ==
  (observed.done /\ observed.during /\ reloads > 0) =>
    \/ observed.stack = pre.stack
    \/ CompleteFor(observed.stack, options)

\* C19: when app.reload(options) fails part-way the application is as it
\* was before the reload: same routes and error stages, same app.ext.
C19_FailedReloadRestores ==
  (pc = "rejected" /\ reloads > 0) =>
    /\ Live.stack = pre.stack
    /\ Live.ext = pre.ext

Count(stack, entry) == Cardinality({i \in 1..Len(stack) : stack[i] = entry})

\* the capture stage once, before the present stage once, after every route
StagesOnceAfterRoutes(stack) ==
  /\ Count(stack, <<"use", "capture">>) = 1
  /\ Count(stack, <<"use", "present">>) = 1
  /\ IndexIn(stack, <<"use", "capture">>) < IndexIn(stack, <<"use", "present">>)
  /\ \A i \in 1..Len(stack) :
       stack[i][1] = "route" => i < IndexIn(stack, <<"use", "capture">>)

====
